---- MODULE Spec2Model ----
(***************************************************************************)
(* A model of outils.py: the output stream splitter (osplitter) and the    *)
(* write counter (writecounter).                                           *)
(*                                                                         *)
(* The splitter is modelled as the record self = [files, opened_here]      *)
(* (self._files, self._opened_here).  Every method is a pure operator on   *)
(* that record returning the new record together with what the caller and  *)
(* the destinations observe: the return value, the error that propagates,  *)
(* and the sequence of calls made on destinations (open / write / close).  *)
(* One action per method applies the operator and records the outcome in   *)
(* the history variable last.                                              *)
(*                                                                         *)
(* The counter is modelled with the two steps of "self.count += 1" (read   *)
(* the attribute, store the sum) per thread, so that a poller can observe  *)
(* the tally between the two.                                              *)
(*                                                                         *)
(* The extension filter is modelled on file names as sequences of          *)
(* characters, with os.path.splitext computed as posixpath computes it.    *)
(*                                                                         *)
(* Splitters registered on splitters (and on themselves) are modelled with *)
(* the stack of running write calls, one step of a for loop at a time.     *)
(***************************************************************************)
EXTENDS Integers, Sequences, FiniteSets, TLC

\* ------------------------------------------------------------------ bounds

MaxFiles == 3       \* longest destination list explored
MaxArgs == 2        \* most constructor arguments explored
MaxOpen == 2        \* most files opened from path names in one run
MaxDepth == 1       \* deepest nesting of with-blocks explored
MaxWrites == 3      \* most counter writes started in one run
MaxInit == 5        \* the counter's initial value ranges over -MaxInit..MaxInit
MaxNames == 4       \* longest list of file names given to the extension filter
MaxNest == 2        \* longest destination list of a splitter holding splitters
MaxStack == 3       \* most write calls nested in one another that are followed

\* ------------------------------------------------------------- destinations

\* Already-open writable handles the caller owns (sys.stderr, a temp file).
Streams == { [kind |-> "stream", name |-> n, id |-> 0] : n \in {"s1", "s2"} }

\* Path names (strings): they expose no write method.
Paths == { [kind |-> "path", name |-> n, id |-> 0] : n \in {"p1", "p2"} }

\* What a caller may hand to the constructor or to register.
Args == Streams \cup Paths

Modes == {"w", "a"}

\* Messages, the empty one included.
Msgs == {"", "m"}

NoArg == [kind |-> "none", name |-> "", id |-> 0]

\* hasattr(f, 'write'): streams, file objects, and splitters themselves
HasWrite(f) == f.kind \in {"stream", "file", "splitter"}

\* The file object open(f, mode) returns; id tells apart two opens of a path.
open(f, id) == [kind |-> "file", name |-> f.name, id |-> id]

\* One call made on a destination (or on the platform's open).
Call(op, h, data, ok) == [op |-> op, h |-> h, data |-> data, ok |-> ok]

\* ------------------------------------------------------------ the splitter

\* A mutant of register_stream: newest destination first.
register_stream_front(self, f) == [self EXCEPT !.files = <<f>> \o @]

\* A mutant of register_stream: a handle already present is not added again.
register_stream_dedup(self, f) ==
    IF \E i \in 1..Len(self.files) : self.files[i] = f
    THEN self
    ELSE [self EXCEPT !.files = Append(@, f)]

\* osplitter._register_stream
register_stream(self, f) == [self EXCEPT !.files = Append(@, f)]

\* A mutant of register: the destination list is reset when open fails.
register_reset_on_failure(self, f, mode, openOk, id) ==
    IF HasWrite(f)
    THEN [self |-> register_stream(self, f), ret |-> "True", err |-> "none",
          calls |-> <<>>]
    ELSE IF openOk
         THEN [self |-> register_stream(self, open(f, id)), ret |-> "True",
               err |-> "none", calls |-> <<Call("open", f, mode, TRUE)>>]
         ELSE [self |-> [self EXCEPT !.files = <<>>], ret |-> "none",
               err |-> "IOError", calls |-> <<Call("open", f, mode, FALSE)>>]

\* A mutant of register: the file opened from a path name is noted as opened
\* here but not added to the destinations.
register_opened_only(self, f, mode, openOk, id) ==
    IF HasWrite(f)
    THEN [self |-> register_stream(self, f), ret |-> "True", err |-> "none",
          calls |-> <<>>]
    ELSE IF openOk
         THEN [self |-> [self EXCEPT !.opened_here = Append(@, open(f, id))],
               ret |-> "True", err |-> "none",
               calls |-> <<Call("open", f, mode, TRUE)>>]
         ELSE [self |-> self, ret |-> "none", err |-> "IOError",
               calls |-> <<Call("open", f, mode, FALSE)>>]

\* osplitter.register.  openOk is the platform's answer to open(f, mode); id
\* is the identity of the file object it returns.
register(self, f, mode, openOk, id) ==
    IF HasWrite(f)
    THEN [self |-> register_stream(self, f), ret |-> "True", err |-> "none",
          calls |-> <<>>]
    ELSE IF openOk
         THEN [self |-> register_stream(self, open(f, id)), ret |-> "True",
               err |-> "none", calls |-> <<Call("open", f, mode, TRUE)>>]
         ELSE [self |-> self, ret |-> "none", err |-> "IOError",
               calls |-> <<Call("open", f, mode, FALSE)>>]

\* osplitter.__len__
len(self) == Len(self.files)

RECURSIVE write_loop(_, _, _, _, _)
\* The for loop of osplitter.write from destination i on; the failAt-th write
\* call raises (0: none does).  acc are the calls made so far.
write_loop(fs, msg, failAt, i, acc) ==
    IF i > Len(fs)
    THEN [calls |-> acc, err |-> "none"]
    ELSE IF i = failAt
         THEN [calls |-> Append(acc, Call("write", fs[i], msg, FALSE)),
               err |-> "WriteError"]
         ELSE write_loop(fs, msg, failAt, i + 1,
                         Append(acc, Call("write", fs[i], msg, TRUE)))

RECURSIVE write_loop_continue(_, _, _, _, _)
\* A mutant of the loop: a failing destination is skipped over and the
\* remaining ones are still written to.
write_loop_continue(fs, msg, failAt, i, acc) ==
    IF i > Len(fs)
    THEN [calls |-> acc, err |-> IF failAt \in 1..Len(fs) THEN "WriteError" ELSE "none"]
    ELSE write_loop_continue(fs, msg, failAt, i + 1,
                             Append(acc, Call("write", fs[i], msg, i # failAt)))

\* A mutant of write: see write_loop_continue.
write_continue(self, msg, failAt) ==
    LET r == write_loop_continue(self.files, msg, failAt, 1, <<>>)
    IN  [self |-> self, ret |-> "None", err |-> r.err, calls |-> r.calls]

\* osplitter.write
write(self, msg, failAt) ==
    LET r == write_loop(self.files, msg, failAt, 1, <<>>)
    IN  [self |-> self,
         ret |-> IF r.err = "none" THEN "None" ELSE "none",
         err |-> r.err, calls |-> r.calls]

\* A mutant of close: close is called on every registered destination.
close_all(self) ==
    [self |-> [files |-> <<>>, opened_here |-> <<>>], ret |-> "None",
     err |-> "none",
     calls |-> [i \in 1..Len(self.files) |->
                    Call("close", self.files[i], "", TRUE)]]

\* A mutant of close: close is called on every registered destination and
\* the lists are left as they are.
close_keep(self) ==
    [self |-> self, ret |-> "None", err |-> "none",
     calls |-> [i \in 1..Len(self.files) |->
                    Call("close", self.files[i], "", TRUE)]]

\* A mutant of close: only the opened-here list is emptied.
close_keep_files(self) ==
    [self |-> [self EXCEPT !.opened_here = <<>>], ret |-> "None",
     err |-> "none",
     calls |-> [i \in 1..Len(self.opened_here) |->
                    Call("close", self.opened_here[i], "", TRUE)]]

\* osplitter.close
close(self) ==
    [self |-> [files |-> <<>>, opened_here |-> <<>>], ret |-> "None",
     err |-> "none",
     calls |-> [i \in 1..Len(self.opened_here) |->
                    Call("close", self.opened_here[i], "", TRUE)]]

\* A mutant of __enter__: the destinations are registered once more.
enter_reregister(self) ==
    [self |-> [self EXCEPT !.files = @ \o @], ret |-> "self", err |-> "none",
     calls |-> <<>>]

\* osplitter.__enter__
enter(self) ==
    [self |-> self, ret |-> "self", err |-> "none", calls |-> <<>>]

\* A mutant of __exit__: it returns True.
exit_true(self) ==
    LET c == close(self)
    IN  [self |-> c.self, ret |-> "True", err |-> "none", calls |-> c.calls,
         closeRuns |-> 1]

\* osplitter.__exit__: closes self, returns False.  closeRuns counts the calls
\* of self.close() it makes.
exit(self) ==
    LET c == close(self)
    IN  [self |-> c.self, ret |-> "False", err |-> "none", calls |-> c.calls,
         closeRuns |-> 1]

\* The with statement: the error in flight when the block was left goes on
\* to the caller unless __exit__ returned a true value.
with_propagates(exc, ret) == IF ret = "True" THEN "none" ELSE exc

RECURSIVE init_loop(_, _, _, _)
\* The for loop of osplitter.__init__ over the arguments from the i-th on,
\* every open succeeding; n counts the files opened so far.
init_loop(self, files, i, n) ==
    IF i > Len(files)
    THEN [self |-> self, nopen |-> n]
    ELSE LET r == register(self, files[i], "w", TRUE, n + 1)
         IN  init_loop(r.self, files, i + 1,
                       IF HasWrite(files[i]) THEN n ELSE n + 1)

\* osplitter.__init__
osplitter_init(files) ==
    init_loop([files |-> <<>>, opened_here |-> <<>>], files, 1, 0)

\* ------------------------------------------------------- the write counter

Threads == {"t1", "t2"}

\* The default of writecounter.__init__'s initial_value.
DefaultInitialValue == 0

\* A mutant of __init__: the initial value is not taken up.
writecounter_init_zero(initial_value) == 0

\* writecounter.__init__: the tally after construction.
writecounter_init(initial_value) == initial_value

\* A mutant of the increment: the tally grows by the length of the message.
writecounter_add_len(c, message) == c + Len(message)

\* The sum that "self.count += 1" computes from the value it read.
writecounter_add(c, message) == c + 1

\* A mutant of tell: the tally as it was at construction.
tell_stale(c, c0) == c0

\* writecounter.tell, given the count field c (c0: its value at construction).
tell(c, c0) == c

\* ------------------------------------------- splitters holding splitters

\* Two splitter objects; each may be registered on the other and on itself.
Splitters == {"A", "B"}

SplitterHandle(n) == [kind |-> "splitter", name |-> n, id |-> 0]

\* What is registered on them: either splitter, or a caller's stream.
NestArgs == {SplitterHandle(n) : n \in Splitters}
                \cup {[kind |-> "stream", name |-> "s1", id |-> 0]}

\* A running call of osplitter.write: the splitter it runs on and the place
\* in _files its for loop has come to.
Frame(sp, i) == [sp |-> sp, i |-> i]

\* A mutant of write_step: the loop of the caller does not move on when the
\* write of a splitter it called returns.
write_step_stuck(objs, stack) ==
    LET n == Len(stack)
        top == stack[n]
        fs == objs[top.sp].files
    IN  IF top.i > Len(fs)
        THEN SubSeq(stack, 1, n - 1)
        ELSE IF fs[top.i].kind = "splitter"
             THEN Append(stack, Frame(fs[top.i].name, 1))
             ELSE [stack EXCEPT ![n] = Frame(top.sp, top.i + 1)]

\* One step of the innermost running osplitter.write: its loop is over and
\* it returns to the loop that called it, which moves on; or it calls
\* f.write(msg) on the destination it has come to, which starts a nested
\* run when f is a splitter and returns at once when f is a stream.
write_step(objs, stack) ==
    LET n == Len(stack)
        top == stack[n]
        fs == objs[top.sp].files
    IN  IF top.i > Len(fs)
        THEN IF n = 1 THEN <<>>
             ELSE [SubSeq(stack, 1, n - 1) EXCEPT
                      ![n - 1] = Frame(stack[n - 1].sp, stack[n - 1].i + 1)]
        ELSE IF fs[top.i].kind = "splitter"
             THEN Append(stack, Frame(fs[top.i].name, 1))
             ELSE [stack EXCEPT ![n] = Frame(top.sp, top.i + 1)]

\* ---------------------------------------------------- the extension filter

\* File names are sequences of characters.
A_dat == <<"a", ".", "d", "a", "t">>
B_log == <<"b", ".", "l", "o", "g">>
C_dat == <<"c", ".", "d", "a", "t">>
D_txt == <<"d", ".", "t", "x", "t">>
Dot_dat == <<".", "d", "a", "t">>
Upper_dat == <<"A", ".", "D", "A", "T">>
A_dat_log == <<"a", ".", "d", "a", "t", ".", "l", "o", "g">>
Dir_file == <<"x", ".", "d", "/", "y">>

\* The file names explored.
FileNames == {A_dat, B_log, C_dat, D_txt, Dot_dat, Upper_dat, A_dat_log, Dir_file}

\* The default ext of getdatfiles and of getlogfiles.
ExtDat == <<".", "d", "a", "t">>
ExtLog == <<".", "l", "o", "g">>

\* The extensions explored: the two defaults, one without its dot, and the
\* empty one.
Exts == {ExtDat, ExtLog, <<"d", "a", "t">>, <<>>}

\* str.rfind, counting from 1: the last place of character c in p, 0 if none.
rfind(p, c) ==
    LET at == {i \in 1..Len(p) : p[i] = c}
    IN  IF at = {} THEN 0 ELSE CHOOSE i \in at : \A j \in at : j <= i

\* os.path.splitext (posixpath): the path is split at the last dot of its
\* last component, dots that lead the component not counting.
splitext(p) ==
    LET sepIndex == rfind(p, "/")
        dotIndex == rfind(p, ".")
    IN  IF /\ dotIndex > sepIndex
           /\ \E k \in (sepIndex + 1)..(dotIndex - 1) : p[k] # "."
        THEN <<SubSeq(p, 1, dotIndex - 1), SubSeq(p, dotIndex, Len(p))>>
        ELSE <<p, <<>>>>

\* A mutant of _has_ext: the file name ends with ext.
has_ext_endswith(filename, ext) ==
    /\ Len(ext) <= Len(filename)
    /\ SubSeq(filename, Len(filename) - Len(ext) + 1, Len(filename)) = ext

\* _has_ext
has_ext(filename, ext) == splitext(filename)[2] = ext

RECURSIVE fileswithext_from(_, _, _)
\* The for loop of fileswithext from the i-th name on: what it yields.
fileswithext_from(args, ext, i) ==
    IF i > Len(args) THEN <<>>
    ELSE (IF has_ext(args[i], ext) THEN <<args[i]>> ELSE <<>>)
             \o fileswithext_from(args, ext, i + 1)

\* fileswithext, drained: the names it yields, in the order it yields them.
fileswithext(args, ext) == fileswithext_from(args, ext, 1)

\* getdatfiles with its default ext
getdatfiles(files) == fileswithext(files, ExtDat)

\* getlogfiles with its default ext
getlogfiles(files) == fileswithext(files, ExtLog)

\* ------------------------------------------------------------------- state

VARIABLES
    self,       \* the splitter: [files, opened_here]
    nopen,      \* files opened from path names so far (names the next one)
    depth,      \* with-blocks on the splitter that are open
    unwinding,  \* the error leaving the open with-blocks, "none" if none
    regLog,     \* history: destinations registered since construction or
                \* the last close, in the order register returned True
    last,       \* history: the last splitter operation and what it did
    closeLog,   \* history: every destination the splitter called close on
    closed,     \* history: whether close has run, and the destinations the
                \* last close found registered
    count,      \* the counter: self.count
    initial,    \* history: the counter's initial_value
    pc,         \* per thread: "idle", or "store" between read and store
    tmp,        \* per thread: the sum about to be stored
    started,    \* history: counter writes started
    completed,  \* history: counter writes that returned
    writers,    \* history: the threads that have called the counter's write
    obs,        \* history: the last tell() and the one before
    overlap,    \* history: a counter write began while another was under way
    names,      \* the list of file names a script is about to filter
    filtered,   \* the last call of the extension filter and its result
    objs,       \* per splitter of Splitters: [files, opened_here]
    stack,      \* the running write calls on them, the innermost last
    nest        \* history: the current or last outermost write on them

svars == <<self, nopen, depth, unwinding, regLog, last, closeLog, closed>>
cvars == <<count, initial, pc, tmp, started, completed, writers, obs, overlap>>
fvars == <<names, filtered>>
nvars == <<objs, stack, nest>>
vars == <<self, nopen, depth, unwinding, regLog, last, closeLog, closed,
          count, initial, pc, tmp, started, completed, writers, obs, overlap,
          names, filtered, objs, stack, nest>>

\* The history of close calls after an operation that made the calls calls.
CloseLogAfter(calls) ==
    closeLog \o [i \in 1..Len(SelectSeq(calls, LAMBDA c : c.op = "close")) |->
                    SelectSeq(calls, LAMBDA c : c.op = "close")[i].h]

\* What an operation op did: r is the method's outcome.
Outcome(op, arg, data, failAt, r, closeRuns, err) ==
    [op |-> op, arg |-> arg, data |-> data, failAt |-> failAt,
     ret |-> r.ret, err |-> err, calls |-> r.calls, closeRuns |-> closeRuns,
     files0 |-> self.files, opened0 |-> self.opened_here,
     log0 |-> regLog, exc0 |-> unwinding, depth0 |-> depth,
     closedBefore |-> closed.ever]

RECURSIVE SeqsUpTo(_, _)
\* The sequences over S of length at most n.
SeqsUpTo(S, n) ==
    IF n = 0 THEN {<<>>}
    ELSE LET shorter == SeqsUpTo(S, n - 1)
         IN  shorter \cup {Append(q, x) : q \in shorter, x \in S}

\* The constructor arguments explored: no more path names than MaxOpen.
CtorArgs ==
    {a \in SeqsUpTo(Args, MaxArgs) :
        Cardinality({i \in 1..Len(a) : ~HasWrite(a[i])}) <= MaxOpen}

\* The splitter after osplitter(*files).
SplitterInit(files) ==
    LET r == osplitter_init(files)
    IN  /\ self = r.self
        /\ nopen = r.nopen
        /\ depth = 0
        /\ unwinding = "none"
        /\ regLog = [i \in 1..Len(files) |->
                        IF HasWrite(files[i]) THEN files[i]
                        ELSE open(files[i],
                                  Cardinality({j \in 1..i : ~HasWrite(files[j])}))]
        /\ last = [op |-> "init", arg |-> NoArg, data |-> "", failAt |-> 0,
                   ret |-> "None", err |-> "none", calls |-> <<>>,
                   closeRuns |-> 0, files0 |-> <<>>, opened0 |-> <<>>,
                   log0 |-> <<>>, exc0 |-> "none", depth0 |-> 0,
                   closedBefore |-> FALSE]
        /\ closeLog = <<>>
        /\ closed = [ever |-> FALSE, dropped |-> {}]

NoObs == [n |-> 0, by |-> "", val |-> 0, field |-> 0, started |-> 0,
          completed |-> 0, prev |-> 0]

\* The counter after writecounter(initial_value).
CounterInit(initial_value) ==
    /\ count = writecounter_init(initial_value)
    /\ initial = initial_value
    /\ pc = [t \in Threads |-> "idle"]
    /\ tmp = [t \in Threads |-> 0]
    /\ started = 0
    /\ completed = 0
    /\ writers = {}
    /\ obs = NoObs
    /\ overlap = FALSE

NoFilter == [op |-> "none", ext |-> <<>>, args |-> <<>>, result |-> <<>>]

\* No file names yet, no call of the filter made.
FilterInit ==
    /\ names = <<>>
    /\ filtered = NoFilter

\* Two splitters constructed without arguments, no write running.
NestInit ==
    /\ objs = [n \in Splitters |-> osplitter_init(<<>>).self]
    /\ stack = <<>>
    /\ nest = [state |-> "idle", on |-> "", peak |-> 0, wrote |-> {}]

\* ----------------------------------------------------- splitter operations

\* s.register(f, mode)
Register(f, mode, openOk) ==
    /\ unwinding = "none"
    /\ Len(self.files) < MaxFiles
    /\ HasWrite(f) \/ nopen < MaxOpen
    /\ LET r == register(self, f, mode, openOk, nopen + 1)
       IN  /\ self' = r.self
           /\ nopen' = IF ~HasWrite(f) /\ openOk THEN nopen + 1 ELSE nopen
           /\ regLog' = IF r.ret = "True"
                        THEN Append(regLog, IF HasWrite(f) THEN f
                                            ELSE open(f, nopen + 1))
                        ELSE regLog
           /\ unwinding' = IF depth > 0 THEN r.err ELSE "none"
           /\ last' = Outcome("register", f, mode, 0, r, 0, r.err)
    /\ depth' = depth
    /\ UNCHANGED <<closeLog, closed>>
    /\ UNCHANGED <<cvars, fvars, nvars>>

\* s.write(msg); the failAt-th destination write raises (0: none)
Write(msg, failAt) ==
    /\ unwinding = "none"
    /\ LET r == write(self, msg, failAt)
       IN  /\ self' = r.self
           /\ unwinding' = IF depth > 0 THEN r.err ELSE "none"
           /\ last' = Outcome("write", NoArg, msg, failAt, r, 0, r.err)
    /\ UNCHANGED <<nopen, depth, regLog, closeLog, closed>>
    /\ UNCHANGED <<cvars, fvars, nvars>>

\* s.close()
Close ==
    /\ unwinding = "none"
    /\ LET r == close(self)
       IN  /\ self' = r.self
           /\ last' = Outcome("close", NoArg, "", 0, r, 1, r.err)
           /\ closeLog' = CloseLogAfter(r.calls)
    /\ closed' = [ever |-> TRUE,
                  dropped |-> {self.files[i] : i \in 1..Len(self.files)}]
    /\ regLog' = <<>>
    /\ UNCHANGED <<nopen, depth, unwinding>>
    /\ UNCHANGED <<cvars, fvars, nvars>>

\* "with s:" is entered
Enter ==
    /\ unwinding = "none"
    /\ depth < MaxDepth
    /\ LET r == enter(self)
       IN  /\ self' = r.self
           /\ last' = Outcome("enter", NoArg, "", 0, r, 0, r.err)
    /\ depth' = depth + 1
    /\ UNCHANGED <<nopen, unwinding, regLog, closeLog, closed>>
    /\ UNCHANGED <<cvars, fvars, nvars>>

\* The innermost with-block is left, normally or by the error in flight: the
\* with statement calls __exit__ and lets the error go on unless it returned
\* a true value.
Exit ==
    /\ depth > 0
    /\ LET r == exit(self)
           e == with_propagates(unwinding, r.ret)
       IN  /\ self' = r.self
           /\ unwinding' = IF depth > 1 THEN e ELSE "none"
           /\ last' = Outcome("exit", NoArg, "", 0, r, r.closeRuns, e)
           /\ closeLog' = CloseLogAfter(r.calls)
    /\ closed' = [ever |-> TRUE,
                  dropped |-> {self.files[i] : i \in 1..Len(self.files)}]
    /\ depth' = depth - 1
    /\ regLog' = <<>>
    /\ nopen' = nopen
    /\ UNCHANGED <<cvars, fvars, nvars>>

\* ------------------------------------------------------ counter operations

\* counter.write(message), first step: read self.count and add
CounterWriteRead(t, message) ==
    /\ pc[t] = "idle"
    /\ started < MaxWrites
    /\ tmp' = [tmp EXCEPT ![t] = writecounter_add(count, message)]
    /\ pc' = [pc EXCEPT ![t] = "store"]
    /\ started' = started + 1
    /\ writers' = writers \cup {t}
    /\ overlap' = (overlap \/ \E u \in Threads : pc[u] = "store")
    /\ UNCHANGED <<count, initial, completed, obs>>
    /\ UNCHANGED <<svars, fvars, nvars>>

\* counter.write(message), second step: store the sum and return
CounterWriteStore(t) ==
    /\ pc[t] = "store"
    /\ count' = tmp[t]
    /\ pc' = [pc EXCEPT ![t] = "idle"]
    /\ completed' = completed + 1
    /\ UNCHANGED <<initial, tmp, started, writers, obs, overlap>>
    /\ UNCHANGED <<svars, fvars, nvars>>

\* counter.tell() by a thread that is not inside write; field is the count
\* attribute read at the same moment
Tell(t) ==
    /\ pc[t] = "idle"
    /\ obs' = [n |-> IF obs.n = 0 THEN 1 ELSE 2, by |-> t,
               val |-> tell(count, initial), field |-> count,
               started |-> started, completed |-> completed,
               prev |-> obs.val]
    /\ UNCHANGED <<count, initial, pc, tmp, started, completed, writers, overlap>>
    /\ UNCHANGED <<svars, fvars, nvars>>

\* ------------------------------------------------------- filter operations

\* The script gathers one more file name.
AddName(fn) ==
    /\ Len(names) < MaxNames
    /\ names' = Append(names, fn)
    /\ filtered' = NoFilter
    /\ UNCHANGED <<svars, cvars, nvars>>

\* list(fileswithext(names, ext))
FilesWithExt(ext) ==
    /\ filtered' = [op |-> "fileswithext", ext |-> ext, args |-> names,
                    result |-> fileswithext(names, ext)]
    /\ UNCHANGED <<names, svars, cvars, nvars>>

\* getdatfiles(names)
GetDatFiles ==
    /\ filtered' = [op |-> "getdatfiles", ext |-> ExtDat, args |-> names,
                    result |-> getdatfiles(names)]
    /\ UNCHANGED <<names, svars, cvars, nvars>>

\* getlogfiles(names)
GetLogFiles ==
    /\ filtered' = [op |-> "getlogfiles", ext |-> ExtLog, args |-> names,
                    result |-> getlogfiles(names)]
    /\ UNCHANGED <<names, svars, cvars, nvars>>

\* ------------------------------------- operations on splitters of splitters

\* sp.register(f), f a stream or a splitter; no write is running
NestRegister(sp, f) ==
    /\ stack = <<>>
    /\ Len(objs[sp].files) < MaxNest
    /\ objs' = [objs EXCEPT ![sp] = register(objs[sp], f, "w", TRUE, 0).self]
    /\ UNCHANGED <<stack, nest>>
    /\ UNCHANGED <<svars, cvars, fvars>>

\* sp.write(msg) is called
NestWrite(sp) ==
    /\ stack = <<>>
    /\ stack' = <<Frame(sp, 1)>>
    /\ nest' = [state |-> "running", on |-> sp, peak |-> 1, wrote |-> {}]
    /\ UNCHANGED objs
    /\ UNCHANGED <<svars, cvars, fvars>>

\* The innermost running write takes its next step.  Nesting is followed
\* up to MaxStack calls deep.
NestStep ==
    /\ stack # <<>>
    /\ LET top == stack[Len(stack)]
           fs == objs[top.sp].files
           calling == top.i <= Len(fs)
       IN  /\ (calling /\ fs[top.i].kind = "splitter") => Len(stack) < MaxStack
           /\ stack' = write_step(objs, stack)
           /\ nest' = [nest EXCEPT
                  !.state = IF stack' = <<>> THEN "returned" ELSE "running",
                  !.peak = IF Len(stack') > @ THEN Len(stack') ELSE @,
                  !.wrote = IF calling /\ fs[top.i].kind # "splitter"
                            THEN @ \cup {fs[top.i].name} ELSE @]
    /\ UNCHANGED objs
    /\ UNCHANGED <<svars, cvars, fvars>>

\* ---------------------------------------------------------- specifications

Init ==
    /\ \E files \in CtorArgs : SplitterInit(files)
    /\ CounterInit(DefaultInitialValue)
    /\ FilterInit
    /\ NestInit

Next ==
    \/ \E f \in Args, mode \in Modes, openOk \in BOOLEAN : Register(f, mode, openOk)
    \/ \E msg \in Msgs, failAt \in 0..Len(self.files) : Write(msg, failAt)
    \/ Close
    \/ Enter
    \/ Exit

\* The splitter, used by one thread of control.
Spec == Init /\ [][Next]_vars

InitCounter ==
    /\ SplitterInit(<<>>)
    /\ \E v \in (0 - MaxInit)..MaxInit : CounterInit(v)
    /\ FilterInit
    /\ NestInit

NextCounter ==
    \/ \E t \in Threads, message \in Msgs : CounterWriteRead(t, message)
    \/ \E t \in Threads : CounterWriteStore(t)
    \/ \E t \in Threads : Tell(t)

\* The counter, written to and polled by the threads of Threads.
SpecCounter == InitCounter /\ [][NextCounter]_vars

InitFilter ==
    /\ SplitterInit(<<>>)
    /\ CounterInit(DefaultInitialValue)
    /\ FilterInit
    /\ NestInit

NextFilter ==
    \/ \E fn \in FileNames : AddName(fn)
    \/ \E ext \in Exts : FilesWithExt(ext)
    \/ GetDatFiles
    \/ GetLogFiles

\* The extension filter, applied to lists of file names.
SpecFilter == InitFilter /\ [][NextFilter]_vars

InitNest ==
    /\ SplitterInit(<<>>)
    /\ CounterInit(DefaultInitialValue)
    /\ FilterInit
    /\ NestInit

NextNest ==
    \/ \E sp \in Splitters, f \in NestArgs : NestRegister(sp, f)
    \/ \E sp \in Splitters : NestWrite(sp)
    \/ NestStep

\* Splitters registered on splitters, used by one thread of control: a write
\* call that has begun keeps running.
SpecNest == InitNest /\ [][NextNest]_vars /\ WF_vars(NestStep)

\* ------------------------------------------------------------ properties

\* The destinations a sequence of calls invoked op on.
Called(calls, op) == {calls[i].h : i \in {j \in 1..Len(calls) : calls[j].op = op}}

\* The members of a sequence.
Range(q) == {q[i] : i \in 1..Len(q)}

(* C1: a Write(data) during which no destination fails makes exactly one   *)
(* write call carrying data per registered destination D1..Dn, and makes   *)
(* these calls in registration order.                                      *)
C1_WriteReachesEachInOrder ==
    (last.op = "write" /\ last.err = "none") =>
        /\ Len(last.calls) = Len(last.log0)
        /\ \A i \in 1..Len(last.log0) :
              last.calls[i] = Call("write", last.log0[i], last.data, TRUE)

\* A Write has completed on three destinations, a file opened from a path
\* name between two different caller streams.
C1_Witness ==
    /\ last.op = "write" /\ last.err = "none"
    /\ Len(last.log0) = 3
    /\ last.log0[1] \in Streams /\ last.log0[3] \in Streams
    /\ last.log0[1] # last.log0[3]
    /\ last.log0[2].kind = "file"

(* C2: Close() invokes close on exactly the destinations the splitter      *)
(* opened itself from path names, and afterwards Count() is 0.             *)
C2_CloseClosesOpenedHere ==
    last.op = "close" =>
        /\ Called(last.calls, "close") = {h \in Range(last.files0) : h.kind = "file"}
        /\ len(self) = 0

(* C3: Register of a path name appends the opened handle to both the       *)
(* destination list and the opened-here list and returns true; Register of *)
(* a handle with a write capability appends it to the destination list     *)
(* only and returns true.                                                  *)
C3_RegisterAppendsToBoth ==
    (last.op = "register" /\ last.err = "none") =>
        /\ last.ret = "True"
        /\ IF HasWrite(last.arg)
           THEN /\ self.files = Append(last.files0, last.arg)
                /\ self.opened_here = last.opened0
           ELSE \E h \in Range(self.files) :
                    /\ h.kind = "file" /\ h.name = last.arg.name
                    /\ self.files = Append(last.files0, h)
                    /\ self.opened_here = Append(last.opened0, h)

(* C4: no operation of the splitter invokes close on a handle the caller   *)
(* passed in already open.                                                 *)
C4_NeverClosesCallerHandle ==
    \A i \in 1..Len(last.calls) :
        last.calls[i].op = "close" => last.calls[i].h \notin Streams

\* Close has run, by a call or on leaving a with-block, on a splitter holding
\* a caller's stream.
C4_Witness ==
    /\ last.op \in {"close", "exit"}
    /\ \E i \in 1..Len(last.files0) : last.files0[i] \in Streams

(* C5: leaving a with-block, normally or by an error raised inside it,     *)
(* runs Close() exactly once (the splitter is empty afterwards), and the   *)
(* error raised inside the block, if any, goes on to the caller.           *)
C5_ScopeExitClosesOnceAndPropagates ==
    last.op = "exit" =>
        /\ last.closeRuns = 1
        /\ len(self) = 0
        /\ last.ret = "False"
        /\ last.err = last.exc0

\* A with-block holding destinations has been left by a failed write.
C5_Witness ==
    /\ last.op = "exit"
    /\ last.exc0 = "WriteError"
    /\ Len(last.files0) > 0

(* C6: when the k-th destination's write fails during Write(data), the     *)
(* destinations before it have each received data once, those after it     *)
(* receive no call, the error propagates and the splitter's lists are      *)
(* unchanged.                                                              *)
C6_PartialWrite ==
    (last.op = "write" /\ last.err # "none") =>
        LET k == Len(last.calls)
        IN  /\ k = last.failAt
            /\ k \in 1..Len(last.files0)
            /\ \A i \in 1..(k - 1) :
                  last.calls[i] = Call("write", last.files0[i], last.data, TRUE)
            /\ last.calls[k] = Call("write", last.files0[k], last.data, FALSE)
            /\ last.err = "WriteError"
            /\ self.files = last.files0
            /\ self.opened_here = last.opened0

\* The second of three destinations has failed.
C6_Witness ==
    /\ last.op = "write" /\ last.err # "none"
    /\ last.failAt = 2
    /\ Len(last.files0) = 3

(* C7: when the open of a path name given to Register fails, the error     *)
(* propagates, both lists keep their contents, and no registered           *)
(* destination receives a write or a close call.                           *)
C7_FailedRegisterLeavesState ==
    (last.op = "register" /\ last.err # "none") =>
        /\ last.err = "IOError"
        /\ self.files = last.files0
        /\ self.opened_here = last.opened0
        /\ \A i \in 1..Len(last.calls) : last.calls[i].op = "open"

\* An open has failed on a splitter that holds two destinations.
C7_Witness ==
    /\ last.op = "register" /\ last.err = "IOError"
    /\ Len(last.files0) = 2

\* Only one thread has ever called the counter's write.
SingleWriter == Cardinality(writers) <= 1

\* No counter write is between its read and its store.
Quiescent == \A t \in Threads : pc[t] = "idle"

(* C8: after k Write calls made one after the other on a counter started   *)
(* at v, the count field is v + k and Tell() returns v + k, whatever the   *)
(* data written; Tell() and the field agree.                               *)
C8_TellIsInitialPlusWrites ==
    SingleWriter =>
        /\ Quiescent => count = initial + completed
        /\ (obs.n > 0 /\ obs.started = obs.completed) =>
              /\ obs.val = initial + obs.completed
              /\ obs.field = obs.val

\* Started at 5, written three times by one thread, told 8.
C8_Witness ==
    /\ SingleWriter
    /\ initial = 5
    /\ obs.n > 0 /\ obs.completed = 3 /\ obs.started = 3
    /\ obs.val = 8 /\ count = 8

(* C9: with one writing thread and no lock, every value a poller reads is  *)
(* between v + (writes completed) and v + (writes started), later reads    *)
(* are never smaller than earlier ones, and a read made when k writes have *)
(* completed and none is in progress gives exactly v + k.                  *)
C9_PollingObservations ==
    (SingleWriter /\ obs.n > 0) =>
        /\ initial + obs.completed <= obs.val
        /\ obs.val <= initial + obs.started
        /\ initial <= obs.val
        /\ obs.n > 1 => obs.prev <= obs.val
        /\ obs.started = obs.completed => obs.val = initial + obs.completed

\* The poller, a thread that never writes, has read twice, the second time
\* while the writer was between the read and the store of its second write.
C9_Witness ==
    /\ SingleWriter
    /\ obs.n > 1
    /\ obs.by \notin writers
    /\ obs.completed = 1 /\ obs.started = 2
    /\ \E t \in Threads : pc[t] = "store"

(* C10: Count() is the number of registrations that succeeded since        *)
(* construction or the last Close(), and a Write on a splitter without     *)
(* destinations makes no write call.                                       *)
C10_CountIsRegistrations ==
    /\ len(self) = Len(regLog)
    /\ (last.op = "write" /\ Len(last.log0) = 0) => last.calls = <<>>

\* Three registrations since the last close, one handle registered twice and
\* one file opened from a path name.
C10_Witness ==
    /\ Len(regLog) = 3
    /\ regLog[1] = regLog[3]
    /\ regLog[2].kind = "file"
    /\ nopen = 2

\* How many times x occurs in the sequence q.
Occ(q, x) == Cardinality({i \in 1..Len(q) : q[i] = x})

(* C11: a Close() that follows an earlier Close() with no registration in  *)
(* between makes no close call, and no destination the splitter opened     *)
(* ever receives more than one close call from it.                         *)
C11_SecondCloseIsNoOp ==
    /\ (last.op \in {"close", "exit"} /\ last.closedBefore /\ last.log0 = <<>>) =>
           Called(last.calls, "close") = {}
    /\ \A h \in Range(closeLog) : h.kind = "file" => Occ(closeLog, h) <= 1

\* Close has run a second time, nothing registered in between, on a splitter
\* that had opened a file from a path name before the first one.
C11_Witness ==
    /\ last.op = "close"
    /\ last.closedBefore
    /\ last.log0 = <<>>
    /\ nopen > 0

(* C12: after Close() the splitter is as a freshly constructed one without *)
(* arguments, and a later Write reaches only destinations registered after *)
(* that Close(), none of those it dropped.                                 *)
C12_CloseResetsToFresh ==
    /\ last.op \in {"close", "exit"} => self = osplitter_init(<<>>).self
    /\ last.op = "write" =>
          /\ Called(last.calls, "write") \subseteq Range(last.log0)
          /\ \A h \in closed.dropped \ Range(last.log0) :
                h \notin Called(last.calls, "write")

\* A Write has reached a destination registered after a Close that dropped
\* other destinations.
C12_Witness ==
    /\ last.op = "write"
    /\ last.calls # <<>>
    /\ closed.dropped # {}
    /\ closed.dropped \cap Range(last.log0) = {}

(* C13: registering a handle that is registered already adds one more      *)
(* entry (Count() grows by one each time), and a Write that completes      *)
(* calls the write of a handle registered m times m times.                 *)
C13_DuplicatesAreKept ==
    /\ (last.op = "register" /\ HasWrite(last.arg)) =>
          /\ len(self) = Len(last.files0) + 1
          /\ Occ(self.files, last.arg) = Occ(last.files0, last.arg) + 1
    /\ (last.op = "write" /\ last.err = "none") =>
          \A h \in Range(last.log0) :
              Occ([i \in 1..Len(last.calls) |-> last.calls[i].h], h)
                  = Occ(last.log0, h)

\* A Write has completed on a splitter on which one stream was registered
\* twice, beside another destination.
C13_Witness ==
    /\ last.op = "write" /\ last.err = "none"
    /\ \E h \in Streams :
          /\ Occ(last.log0, h) = 2
          /\ Occ([i \in 1..Len(last.calls) |-> last.calls[i].h], h) = 2
    /\ Len(last.log0) = 3

(* C14: every handle in the opened-here list is in the destination list.   *)
C14_OpenedHereAreDestinations ==
    Range(self.opened_here) \subseteq Range(self.files)

\* A path name has just been registered with success on a splitter that
\* already holds a destination.
C14_Witness ==
    /\ last.op = "register" /\ last.err = "none"
    /\ ~HasWrite(last.arg)
    /\ Len(self.files) >= 2

(* C16: entering the scope returns the splitter itself and changes         *)
(* nothing: both lists are as before, nothing is registered again, and no  *)
(* open, write or close call is made.                                      *)
C16_EnterChangesNothing ==
    last.op = "enter" =>
        /\ last.ret = "self"
        /\ self.files = last.files0
        /\ self.opened_here = last.opened0
        /\ regLog = last.log0
        /\ last.calls = <<>>

\* A scope has been entered on a splitter holding two destinations.
C16_Witness ==
    /\ last.op = "enter"
    /\ Len(last.files0) = 2
    /\ depth = 1

(* C17, as claimed: whatever the interleaving of the writes of several     *)
(* threads, the tally is initial_value + k once k Write calls have         *)
(* returned and none is under way.                                         *)
C17_NoIncrementLost ==
    Quiescent => count = initial + completed

(* C17, amended: when no Write call on the counter began while another was *)
(* under way, the tally is initial_value + k once k Write calls have       *)
(* returned, whichever threads made them.                                  *)
C17_NoIncrementLostWithoutOverlap ==
    (~overlap /\ Quiescent) => count = initial + completed

\* Both threads have written, taking turns, three writes in all.
C17_Witness ==
    /\ ~overlap /\ Quiescent
    /\ writers = Threads
    /\ completed = 3
    /\ count = initial + 3
    /\ initial # 0

\* The extension of each file name explored, as os.path.splitext is
\* documented to split it off.
KnownExt(fn) ==
    CASE fn = A_dat -> <<".", "d", "a", "t">>
      [] fn = B_log -> <<".", "l", "o", "g">>
      [] fn = C_dat -> <<".", "d", "a", "t">>
      [] fn = D_txt -> <<".", "t", "x", "t">>
      [] fn = Dot_dat -> <<>>
      [] fn = Upper_dat -> <<".", "D", "A", "T">>
      [] fn = A_dat_log -> <<".", "l", "o", "g">>
      [] fn = Dir_file -> <<>>

\* s is q with some members left out, order and the rest kept: the members
\* of q at the places keep.
IsSubsequenceAt(s, q, keep) ==
    /\ Len(s) = Cardinality(keep)
    /\ \A i \in keep :
          s[Cardinality({j \in keep : j <= i})] = q[i]

(* C15: the filter and its two specializations (ext ".dat" and ".log")     *)
(* return exactly the file names of the input whose split-off extension    *)
(* equals ext, character for character, in input order and as often as     *)
(* they occur; ["a.dat", "b.log", "c.dat", "d.txt"] gives                  *)
(* ["a.dat", "c.dat"] for ".dat" and ["b.log"] for ".log".                 *)
C15_FilterKeepsMatchingNames ==
    filtered.op # "none" =>
        /\ filtered.op = "getdatfiles" => filtered.ext = <<".", "d", "a", "t">>
        /\ filtered.op = "getlogfiles" => filtered.ext = <<".", "l", "o", "g">>
        /\ IsSubsequenceAt(filtered.result, filtered.args,
                           {i \in 1..Len(filtered.args) :
                               KnownExt(filtered.args[i]) = filtered.ext})
        /\ (filtered.args = <<A_dat, B_log, C_dat, D_txt>>) =>
              /\ filtered.ext = <<".", "d", "a", "t">> =>
                    filtered.result = <<A_dat, C_dat>>
              /\ filtered.ext = <<".", "l", "o", "g">> =>
                    filtered.result = <<B_log>>

\* getdatfiles has been applied to a list holding a.dat twice, the file
\* name .dat (no extension) and a.dat.log.
C15_Witness ==
    /\ filtered.op = "getdatfiles"
    /\ filtered.args = <<A_dat, Dot_dat, A_dat_log, A_dat>>
    /\ filtered.result = <<A_dat, A_dat>>

\* The splitters registered on splitter n.
Inner(n) == {h.name : h \in {g \in Range(objs[n].files) : g.kind = "splitter"}}

RECURSIVE ReachIn(_, _)
\* The splitters a write on one of from gets to in at most k nested calls.
ReachIn(from, k) ==
    IF k = 0 THEN {}
    ELSE LET next == UNION {Inner(n) : n \in from}
         IN  next \cup ReachIn(next, k - 1)

\* No splitter is registered on itself, directly or through other splitters.
Acyclic == \A n \in Splitters : n \notin ReachIn({n}, Cardinality(Splitters))

(* C18, as claimed: a Write terminates for every destination list Register *)
(* accepts.  write leaves the lists alone and runs the same way each time  *)
(* it runs on a splitter, so it terminates exactly when no write call is   *)
(* nested inside a write call on the same splitter.                        *)
C18_WriteNeverNestsInItself ==
    \A i, j \in 1..Len(stack) : i < j => stack[i].sp # stack[j].sp

(* C18, amended: when no splitter is registered on itself, directly or     *)
(* through other splitters, a Write call that has begun returns.           *)
C18_AcyclicWriteTerminates ==
    (stack # <<>> /\ Acyclic) ~> (stack = <<>>)

\* A write on a splitter that holds the other splitter has returned, after
\* a nested write call and a write call on the stream.
C18_Witness ==
    /\ Acyclic
    /\ nest.state = "returned"
    /\ nest.peak = 2
    /\ nest.wrote # {}
    /\ stack = <<>>

====
